---- MODULE Spec2Model ----
(***************************************************************************)
(* Model of crawl_hardrace.py: the single-site product crawler.            *)
(*                                                                         *)
(* Strings are sequences of tokens.  A token is either one of the URL      *)
(* delimiters ":", "/", "?", "#", "." or a run of other characters (a host *)
(* label, a path segment, a query).  Every string operation of the source  *)
(* (split, startswith, lower, slicing of a trailing slash) is carried out  *)
(* token by token on these sequences.                                      *)
(***************************************************************************)
EXTENDS Integers, Sequences, FiniteSets, TLC

\* ------------------------------------------------------------------------
\* Bounds
\* ------------------------------------------------------------------------
\* Largest --max-pages value explored (values 0..MaxBudget).
MaxBudget == 3

\* Largest number of pages of a site answered with anything but a 200 HTML
\* page.
MaxFaults == 2

\* ------------------------------------------------------------------------
\* String helpers (Python str methods on token sequences)
\* ------------------------------------------------------------------------
\* F(e), the value of e being computed once and then named (a local
\* variable of the source).
Bind(e, F(_)) == CHOOSE r \in {F(v) : v \in {e}} : TRUE

\* str.find for a single delimiter: index of the first occurrence, 0 if none.
IndexOf(str, t) ==
  Bind(str, LAMBDA s :
    IF \E i \in 1..Len(s) : s[i] = t
    THEN CHOOSE i \in 1..Len(s) : s[i] = t /\ \A j \in 1..(i-1) : s[j] # t
    ELSE 0)

\* str.startswith
StartsWith(str, prefix) ==
  Bind(<<str, prefix>>, LAMBDA a :
    Len(a[2]) <= Len(a[1]) /\ SubSeq(a[1], 1, Len(a[2])) = a[2])

\* str.endswith
EndsWith(str, suffix) ==
  Bind(<<str, suffix>>, LAMBDA a :
    Len(a[2]) <= Len(a[1])
      /\ SubSeq(a[1], Len(a[1]) - Len(a[2]) + 1, Len(a[1])) = a[2])

\* s[i:] (1-based, inclusive start)
From(str, i) == Bind(str, LAMBDA s : SubSeq(s, i, Len(s)))

\* str.lower on one token: the tokens of the model that carry upper case.
LowerTok(t) ==
  CASE t = "HTTPS"    -> "https"
    [] t = "HTTP"     -> "http"
    [] t = "WWW"      -> "www"
    [] t = "Hardrace" -> "hardrace"
    [] t = "Mozilla"  -> "mozilla"
    [] OTHER          -> t

\* str.lower
Lower(str) == Bind(str, LAMBDA s : [i \in 1..Len(s) |-> LowerTok(s[i])])

\* ------------------------------------------------------------------------
\* urllib.parse as used by the crawler
\* ------------------------------------------------------------------------
\* Tokens that cannot be part of a scheme (urllib scheme_chars are letters,
\* digits and "+-.").
IsSchemeTok(t) == t \notin {":", "/", "?", "#", "x=1", "ref=abc"}

\* Index of the first of "/", "?", "#" in s, Len(s)+1 if none (_splitnetloc).
FirstDelim(str) ==
  Bind(str, LAMBDA s :
    IF \E i \in 1..Len(s) : s[i] \in {"/", "?", "#"}
    THEN CHOOSE i \in 1..Len(s) :
           s[i] \in {"/", "?", "#"} /\ \A j \in 1..(i-1) : s[j] \notin {"/", "?", "#"}
    ELSE Len(s) + 1)

\* urlsplit, first step: <<scheme, rest>>.  A scheme is what stands before
\* the first ":" when that is made of scheme characters; it is lowercased.
split_scheme(str) ==
  Bind(str, LAMBDA url :
    Bind(IndexOf(url, ":"), LAMBDA i :
      IF i > 1 /\ url[1] # "." /\ \A k \in 1..(i-1) : IsSchemeTok(url[k])
      THEN << Lower(SubSeq(url, 1, i-1)), From(url, i+1) >>
      ELSE << << >>, url >>))

\* urlsplit, second step: <<netloc, rest>>.  After "//" the netloc runs up to
\* the first "/", "?" or "#".
split_netloc(str) ==
  Bind(str, LAMBDA url :
    IF Len(url) >= 2 /\ url[1] = "/" /\ url[2] = "/"
    THEN Bind(From(url, 3), LAMBDA r :
           Bind(FirstDelim(r), LAMBDA d : << SubSeq(r, 1, d-1), From(r, d) >>))
    ELSE << << >>, url >>)

\* urlsplit, third and fourth step: <<before, after>> the first t of the
\* string, <<string, "">> when there is none.
split_at(str, t) ==
  Bind(str, LAMBDA url :
    Bind(IndexOf(url, t), LAMBDA h :
      IF h > 0 THEN << SubSeq(url, 1, h-1), From(url, h+1) >>
      ELSE << url, << >> >>))

\* urllib.parse.urlsplit: scheme (lowercased), netloc, path, query, fragment.
urlsplit(url) ==
  Bind(split_scheme(url), LAMBDA a :
    Bind(split_netloc(a[2]), LAMBDA b :
      Bind(split_at(b[2], "#"), LAMBDA c :
        Bind(split_at(c[1], "?"), LAMBDA d :
          [scheme |-> a[1], netloc |-> b[1], path |-> d[1],
           query |-> d[2], fragment |-> c[2]]))))

\* Schemes of urllib.parse.uses_netloc / uses_relative that the model meets.
uses_netloc == {<<>>, <<"http">>, <<"https">>}
uses_relative == {<<>>, <<"http">>, <<"https">>}

\* urllib.parse.urlunsplit
urlunsplit(scheme0, netloc0, path0, query0, fragment0) ==
  Bind([scheme |-> scheme0, netloc |-> netloc0, path |-> path0,
        query |-> query0, fragment |-> fragment0], LAMBDA p :
    LET withNet == p.netloc # <<>> \/
                   (p.scheme # <<>> /\ p.scheme \in uses_netloc
                      /\ ~StartsWith(p.path, <<"/", "/">>))
        p1 == IF withNet /\ p.path # <<>> /\ p.path[1] # "/"
              THEN <<"/">> \o p.path ELSE p.path
        u1 == IF withNet THEN <<"/", "/">> \o p.netloc \o p1 ELSE p.path
        u2 == IF p.scheme # <<>> THEN p.scheme \o <<":">> \o u1 ELSE u1
        u3 == IF p.query # <<>> THEN u2 \o <<"?">> \o p.query ELSE u2
    IN IF p.fragment # <<>> THEN u3 \o <<"#">> \o p.fragment ELSE u3)

\* Index of the last "/" of a path, 0 if none (base_parts of urljoin).
LastSlash(str) ==
  Bind(str, LAMBDA s :
    IF \E i \in 1..Len(s) : s[i] = "/"
    THEN CHOOSE i \in 1..Len(s) : s[i] = "/" /\ \A j \in (i+1)..Len(s) : s[j] # "/"
    ELSE 0)

\* urllib.parse.urljoin for the reference forms met on the crawled pages:
\* absolute URLs, scheme-relative URLs, root-relative and relative paths.
\* (No "." or ".." segment occurs, so dot-segment removal is the identity.)
urljoin(base, url) ==
  Bind(<<base, url, urlsplit(base), urlsplit(url)>>, LAMBDA a :
    LET b == a[3]
        u == a[4]
        scheme == IF u.scheme = <<>> THEN b.scheme ELSE u.scheme
    IN IF a[1] = <<>> THEN a[2]
       ELSE IF a[2] = <<>> THEN a[1]
       ELSE IF scheme # b.scheme \/ scheme \notin uses_relative THEN a[2]
       ELSE IF u.netloc # <<>>
         THEN urlunsplit(scheme, u.netloc, u.path, u.query, u.fragment)
       ELSE IF u.path = <<>>
         THEN urlunsplit(scheme, b.netloc, b.path,
                         IF u.query # <<>> THEN u.query ELSE b.query, u.fragment)
       ELSE IF u.path[1] = "/"
         THEN urlunsplit(scheme, b.netloc, u.path, u.query, u.fragment)
       ELSE urlunsplit(scheme, b.netloc,
                       SubSeq(b.path, 1, LastSlash(b.path)) \o u.path,
                       u.query, u.fragment))

\* ------------------------------------------------------------------------
\* crawl_hardrace.py: pure functions
\* ------------------------------------------------------------------------
\* normalize_url with the query kept.
normalize_url_keeps_query(url) ==
  Bind(urlsplit(url), LAMBDA u :
    urlunsplit(IF u.scheme # <<>> THEN u.scheme ELSE <<"https">>,
               Lower(u.netloc),
               IF u.path = <<>> THEN <<"/">>
               ELSE IF Len(u.path) > 1 /\ u.path[Len(u.path)] = "/"
                 THEN SubSeq(u.path, 1, Len(u.path) - 1)
               ELSE u.path,
               u.query, <<>>))

\* normalize_url
normalize_url(url) ==
  Bind(urlsplit(url), LAMBDA u :
    Bind(IF u.path # <<>> THEN u.path ELSE <<"/">>, LAMBDA path0 :
      LET scheme == IF u.scheme # <<>> THEN u.scheme ELSE <<"https">>
          netloc == Lower(u.netloc)
          path   == IF Len(path0) > 1 /\ path0[Len(path0)] = "/"
                    THEN SubSeq(path0, 1, Len(path0) - 1) ELSE path0
      IN urlunsplit(scheme, netloc, path, <<>>, <<>>)))

\* same_site with a substring test in place of set membership.
same_site_substring(url, allowed) ==
  Bind(Lower(urlsplit(url).netloc), LAMBDA host :
    \E a \in allowed : \E i \in 0..Len(host) :
        i + Len(a) <= Len(host) /\ SubSeq(host, i+1, i+Len(a)) = a)

\* same_site
same_site(url, allowed) == Lower(urlsplit(url).netloc) \in allowed

\* The public suffixes tldextract knows among the hosts of the model.
PublicSuffixes == {<<"co", ".", "uk">>, <<"uk">>, <<"com">>, <<"net">>}

\* tldextract.extract(host): the longest public suffix the host ends with and
\* the label before it.
tldextract(str) ==
  Bind(str, LAMBDA host :
    Bind({s \in PublicSuffixes : host = s \/ EndsWith(host, <<".">> \o s)},
         LAMBDA match :
      Bind(IF match = {} THEN <<>>
           ELSE CHOOSE s \in match : \A t \in match : Len(t) <= Len(s),
           LAMBDA suffix :
        Bind(IF suffix = <<>> THEN host
             ELSE SubSeq(host, 1, Len(host) - Len(suffix) - 1), LAMBDA rest :
          [domain |-> IF rest = <<>> THEN <<>> ELSE <<rest[Len(rest)]>>,
           suffix |-> suffix]))))

\* get_allowed_hosts with the www / non-www variants left out.
get_allowed_hosts_host_only(start_url) == {Lower(urlsplit(start_url).netloc)}

\* get_allowed_hosts
get_allowed_hosts(start_url) ==
  Bind(Lower(urlsplit(start_url).netloc), LAMBDA host :
    Bind(tldextract(host), LAMBDA ext :
      Bind(IF ext.domain # <<>> /\ ext.suffix # <<>>
           THEN ext.domain \o <<".">> \o ext.suffix
           ELSE ext.domain \o ext.suffix, LAMBDA root_host :
        IF ~StartsWith(host, <<"www", ".">>) /\ root_host # <<>>
        THEN {host, <<"www", ".">> \o root_host, root_host}
        ELSE {host})))

\* ------------------------------------------------------------------------
\* The environment: hosts, pages served, robots.txt files
\* ------------------------------------------------------------------------
WwwHost  == <<"www", ".", "hardrace", ".", "co", ".", "uk">>
ApexHost == <<"hardrace", ".", "co", ".", "uk">>
EvilHost == <<"hardrace", ".", "co", ".", "uk", ".", "evil", ".", "com">>
CdnHost  == <<"cdn", ".", "net">>

Https(host, path) == <<"https", ":", "/", "/">> \o host \o path

\* Values of --start: the default of the source and an apex start without path.
StartArgs == {Https(WwwHost, <<"/">>), Https(ApexHost, <<>>)}

\* DEFAULT_UA, "Mozilla/5.0 (compatible; url-exporter/1.0; ...)".
DEFAULT_UA == <<"Mozilla", "/", "5.0 (compatible; url-exporter/1.0; +https://example.local)">>

\* A document: the features of the HTML text the crawler looks at.
\*   jsonld    the text holds  "@type": "Product"
\*   og        "none", or the order of the attributes of the og:type meta tag
\*   marker    the text holds  product-info-main
\*   canonical href of <link rel="canonical">, <<>> when there is none
\*   anchors   href of every <a href>, in document order
\*   nonempty  the text is not the empty string
Doc(jsonld, og, marker, canonical, anchors) ==
  [jsonld |-> jsonld, og |-> og, marker |-> marker, canonical |-> canonical,
   anchors |-> anchors, nonempty |-> TRUE]

\* The empty string as a document.
EmptyHtml ==
  [jsonld |-> FALSE, og |-> "none", marker |-> FALSE, canonical |-> <<>>,
   anchors |-> <<>>, nonempty |-> FALSE]

Sites == {"three", "mixed"}

\* The pages a site serves, by path.
SitePages(s) ==
  IF s = "three" THEN
    \* a category page linking to two product pages
    (<<"/">> :> Doc(FALSE, "none", FALSE, <<>>,
                    << <<"/", "p1">>, <<"/", "p2">> >>)) @@
    (<<"/", "p1">> :> Doc(FALSE, "property_first", FALSE, <<>>,
                    << <<"/">> >>)) @@
    (<<"/", "p2">> :> Doc(TRUE, "none", FALSE, <<>>, << >>))
  ELSE
    \* off-domain links, a robots-protected area, aliases of one page, a
    \* product page whose canonical URL is another product page of the site
    (<<"/">> :> Doc(FALSE, "none", FALSE, <<>>,
                    << <<"#", "top">>, <<"/", "a">>, <<"/", "b", "/">>,
                       <<"mailto", ":", "x">>, <<"/", "admin", "/", "x">> >>)) @@
    (<<"/", "a">> :> Doc(FALSE, "none", TRUE, Https(CdnHost, <<"/", "x">>),
                    << <<"/", "b", "?", "x=1">>, Https(EvilHost, <<"/">>),
                       <<"HTTPS", ":", "/", "/", "WWW", ".", "Hardrace", ".",
                         "co", ".", "uk", "/", "b">> >>)) @@
    (<<"/", "b">> :> Doc(TRUE, "none", FALSE, <<>>,
                    << <<"/", "a">>, <<"/">>, Https(CdnHost, <<"/", "x">>) >>)) @@
    (<<"/", "admin", "/", "x">> :> Doc(FALSE, "none", TRUE, <<"/", "b">>, << >>))

SitePaths(s) == DOMAIN SitePages(s)

\* What the server does with a request for a page.
Outcomes == {"html200", "html404", "other200", "raise"}

\* A robots.txt rule line / group.
Rule(path, allowance) == [path |-> path, allowance |-> allowance]
Group(agents, rules) == [useragents |-> agents, rulelines |-> rules]

AdminPrefix == <<"/", "admin", "/">>

RobotsScenarios == {"unreachable", "empty", "star_admin", "named_admin", "star_open_named_admin"}

\* The robots.txt the site serves: loaded or not, and its groups in file order.
RobotsFile(r) ==
  CASE r = "unreachable" -> [loaded |-> FALSE, groups |-> << >>]
    [] r = "empty"       -> [loaded |-> TRUE, groups |-> << >>]
    [] r = "star_admin"  -> [loaded |-> TRUE, groups |->
          << Group({"*"}, << Rule(AdminPrefix, FALSE) >>) >>]
    [] r = "named_admin" -> [loaded |-> TRUE, groups |->
          << Group({"Mozilla"}, << Rule(AdminPrefix, FALSE) >>) >>]
    [] OTHER -> [loaded |-> TRUE, groups |->
          << Group({"*"}, << Rule(<<>>, FALSE) >>),
             Group({"Mozilla"}, << Rule(AdminPrefix, FALSE) >>) >>]

\* ------------------------------------------------------------------------
\* urllib.robotparser as used by the crawler
\* ------------------------------------------------------------------------
\* RobotFileParser(): no entries, no default entry (<<>> stands for None).
NewRobotFileParser ==
  [entries |-> << >>, default_entry |-> << >>, disallow_all |-> FALSE,
   allow_all |-> FALSE, last_checked |-> 0]

\* RobotFileParser._add_entry
add_entry(p, entry) ==
  IF "*" \in entry.useragents
  THEN IF p.default_entry = << >>
       THEN [p EXCEPT !.default_entry = << entry >>]
       ELSE p
  ELSE [p EXCEPT !.entries = Append(p.entries, entry)]

RECURSIVE add_entries(_, _)
add_entries(p, groups) ==
  IF groups = << >> THEN p
  ELSE add_entries(add_entry(p, Head(groups)), Tail(groups))

\* rp.read() inside the try of main: a robots.txt that cannot be fetched
\* leaves the parser as constructed, a fetched one is parsed group by group.
robots_read(p, file) ==
  IF ~file.loaded THEN p
  ELSE add_entries([p EXCEPT !.last_checked = 1], file.groups)

\* RuleLine.applies_to
rule_applies_to(line, filename) ==
  line.path = <<"*">> \/ StartsWith(filename, line.path)

\* RuleLine.allowance: an empty Disallow allows everything.
rule_allowance(line) ==
  IF line.path = <<>> /\ ~line.allowance THEN TRUE ELSE line.allowance

\* Entry.applies_to: the agent name is the part of the User-Agent header
\* before the first "/", lowercased; a group applies when one of its agents
\* is "*" or occurs in that name.
entry_applies_to(entry, useragent) ==
  Bind(Lower(split_at(useragent, "/")[1]), LAMBDA name :
    \E agent \in entry.useragents :
       agent = "*" \/ \E i \in 1..Len(name) : LowerTok(agent) = name[i])

\* Entry.allowance: the first rule line that applies decides.
entry_allowance(entry, filename) ==
  Bind({i \in 1..Len(entry.rulelines) :
          rule_applies_to(entry.rulelines[i], filename)}, LAMBDA hit :
    IF hit = {} THEN TRUE
    ELSE rule_allowance(entry.rulelines[CHOOSE i \in hit : \A j \in hit : i <= j]))

\* RobotFileParser.can_fetch
can_fetch(p, useragent, url) ==
  Bind(urlsplit(url).path, LAMBDA path0 :
    Bind({i \in 1..Len(p.entries) : entry_applies_to(p.entries[i], useragent)},
         LAMBDA hit :
      LET filename == IF path0 = <<>> THEN <<"/">> ELSE path0
      IN IF p.disallow_all THEN FALSE
         ELSE IF p.allow_all THEN TRUE
         ELSE IF p.last_checked = 0 THEN FALSE
         ELSE IF hit # {}
           THEN entry_allowance(p.entries[CHOOSE i \in hit : \A j \in hit : i <= j],
                                filename)
         ELSE IF p.default_entry # << >>
           THEN entry_allowance(p.default_entry[1], filename)
         ELSE TRUE))

\* ------------------------------------------------------------------------
\* crawl_hardrace.py: functions over fetched documents
\* ------------------------------------------------------------------------
\* is_product_html without the JSON-LD test.
is_product_html_no_jsonld(html) ==
  IF ~html.nonempty THEN FALSE
  ELSE html.og = "property_first" \/ html.marker

\* is_product_html: PRODUCT_JSONLD_RE, OG_PRODUCT_RE (property before content),
\* the product-info-main marker.
is_product_html(html) ==
  IF ~html.nonempty THEN FALSE
  ELSE IF html.jsonld THEN TRUE
  ELSE IF html.og = "property_first" THEN TRUE
  ELSE IF html.marker THEN TRUE
  ELSE FALSE

\* The hrefs extract_links keeps, resolved, in document order.
RECURSIVE resolved_anchors(_, _)
resolved_anchors(anchors, base_url) ==
  Bind(anchors, LAMBDA a :
    IF a = << >> THEN << >>
    ELSE Bind(Head(a), LAMBDA href :
           LET rest == resolved_anchors(Tail(a), base_url)
           IN IF StartsWith(href, <<"#">>) \/ StartsWith(href, <<"mailto", ":">>)
                 \/ StartsWith(href, <<"tel", ":">>)
              THEN rest
              ELSE << urljoin(base_url, href) >> \o rest))

\* extract_links
extract_links(soup, base_url) ==
  Bind(resolved_anchors(soup.anchors, base_url), LAMBDA r :
    {r[i] : i \in 1..Len(r)})

\* get_canonical with the canonical link ignored.
get_canonical_fetched_url(soup, url) == normalize_url(url)

\* get_canonical with the href taken as it stands, not joined to the URL.
get_canonical_unresolved(soup, url) ==
  IF soup.canonical # <<>>
  THEN normalize_url(soup.canonical)
  ELSE normalize_url(url)

\* get_canonical
get_canonical(soup, url) ==
  IF soup.canonical # <<>>
  THEN normalize_url(urljoin(url, soup.canonical))
  ELSE normalize_url(url)

\* Every order in which a set can be iterated.
RECURSIVE Orders(_)
Orders(set) ==
  Bind(set, LAMBDA S :
    IF S = {} THEN { << >> }
    ELSE UNION { { << x >> \o o : o \in Orders(S \ {x}) } : x \in S })

\* ------------------------------------------------------------------------
\* State
\* ------------------------------------------------------------------------
VARIABLES
  args,           \* parsed command line: start, max_pages, ua
  site,           \* the site behind the start URL
  resp,           \* what the server does with a request, by path
  robots_txt,     \* the robots.txt scenario of the site
  start,          \* main: start
  allowed_hosts,  \* main: allowed_hosts
  rp,             \* main: rp, the RobotFileParser
  q,              \* main: q, the frontier
  seen,           \* main: seen
  product_urls,   \* main: product_urls
  pages_crawled,  \* main: pages_crawled
  pc,             \* position in main: "robots", "loop", "write", "done"
  out,            \* rows of the CSV written (the rows are the sorted set)
  fetch_log,      \* history: every URL passed to fetch, in order
  enq_log,        \* history: every URL appended to q, in order
  sleeps,         \* history: for every time.sleep(args.delay) call, the
                  \* number of fetch attempts made before it
  call,           \* a function of the module called on its own: the function,
                  \* its arguments and what it returned
  batch,          \* firecrawl_csv_scraper.py: a call of scrape_urls_batch
  job             \* app.py: job_status[job_id], the worker thread of the job
                  \* and the requests made about it

vars == <<args, site, resp, robots_txt, start, allowed_hosts, rp, q, seen,
          product_urls, pages_crawled, pc, out, fetch_log, enq_log, sleeps,
          call, batch, job>>

env == <<args, site, resp, robots_txt, start, allowed_hosts>>

\* No function has been called on its own.
NoCall == [fn |-> "none"]

\* scrape_urls_batch has not been called.
NoBatch == [pc |-> "idle"]

\* No job has been uploaded.
NoJob == [status |-> "none"]

\* ------------------------------------------------------------------------
\* The network
\* ------------------------------------------------------------------------
\* session.get(url): the response of the server, or a RequestException.
session_get(url) ==
  Bind(urlsplit(url).path, LAMBDA path :
    Bind(IF path \in SitePaths(site) THEN resp[path] ELSE "html404", LAMBDA o :
      [raises      |-> o = "raise",
       status_code |-> IF o = "html404" THEN 404 ELSE 200,
       ctype       |-> IF o = "other200" THEN <<"application/pdf">>
                       ELSE <<"text/html", "; charset=utf-8">>,
       text        |-> IF path \in SitePaths(site) THEN SitePages(site)[path]
                       ELSE Doc(FALSE, "none", FALSE, <<>>, << >>)]))

\* fetch with the Content-Type test left out.
fetch_any_type(response) ==
  [status |-> response.status_code, html |-> response.text]

\* fetch, applied to the response of session.get
fetch(response) ==
  Bind(response, LAMBDA r :
    IF (\A i \in 1..Len(r.ctype) : r.ctype[i] # "text/html")
       /\ (\A i \in 1..Len(r.ctype) : r.ctype[i] # "application/xhtml")
    THEN [status |-> r.status_code, html |-> EmptyHtml]
    ELSE [status |-> r.status_code, html |-> r.text])

\* ------------------------------------------------------------------------
\* main: the crawl loop
\* ------------------------------------------------------------------------
\* The while condition with the budget test left out.
loop_condition_no_budget(queue, crawled) == queue # << >>

\* The while condition with the budget test one page short.
loop_condition_one_short(queue, crawled) ==
  queue # << >> /\ crawled + 1 < args.max_pages

\* The while condition: q and pages_crawled < args.max_pages
loop_condition(queue, crawled) == queue # << >> /\ crawled < args.max_pages

\* The dequeued URL put back at the end of the queue.
popleft_requeue(queue) == Append(Tail(queue), Head(queue))

\* q[0] read without removing it.
popleft_peek(queue) == queue

\* The queue after q.popleft()
popleft(queue) == Tail(queue)

\* A visited test that never finds the URL.
already_seen_never(url, visited) == FALSE

\* url in seen
already_seen(url, visited) == url \in visited

\* The robots test without the default_entry guard.
robots_denied_unguarded(url) == ~can_fetch(rp, args.ua, url)

\* A robots test that never denies.
robots_denied_never(url) == FALSE

\* The robots test of the loop
robots_denied(url) ==
  rp.default_entry # << >> /\ ~can_fetch(rp, args.ua, url)

\* n = normalize_url(link) and same_site(n, allowed_hosts) for every link that
\* extract_links returned.  Both depend on the link alone, so the link loop
\* reads them here in whatever order it iterates.
link_table(links) ==
  [link \in links |->
     Bind(normalize_url(link), LAMBDA n :
       [n |-> n, same_site |-> same_site(n, allowed_hosts)])]

\* The enqueue test with the visited test left out.
should_enqueue_ignoring_seen(entry, visited) == entry.same_site

\* The enqueue test: same_site(n, allowed_hosts) and n not in seen
should_enqueue(entry, visited) == entry.same_site /\ entry.n \notin visited

\* The link loop with q.appendleft(n) in place of q.append(n).
RECURSIVE enqueue_links_appendleft(_, _, _, _)
enqueue_links_appendleft(queue, order, visited, table) ==
  Bind(queue, LAMBDA qu :
  Bind(order, LAMBDA o :
    IF o = << >> THEN qu
    ELSE Bind(table[Head(o)], LAMBDA entry :
           enqueue_links_appendleft(IF should_enqueue(entry, visited)
                                    THEN << entry.n >> \o qu ELSE qu,
                                    Tail(o), visited, table))))

\* for link in <order>: n = normalize_url(link); append n when it passes.
RECURSIVE enqueue_links(_, _, _, _)
enqueue_links(queue, order, visited, table) ==
  Bind(queue, LAMBDA qu :
  Bind(order, LAMBDA o :
    IF o = << >> THEN qu
    ELSE Bind(table[Head(o)], LAMBDA entry :
           enqueue_links(IF should_enqueue(entry, visited)
                         THEN Append(qu, entry.n) ELSE qu,
                         Tail(o), visited, table))))

\* The links of the page behind url, as extract_links returns them.
links_of(url) == extract_links(fetch(session_get(url)).html, url)

\* One iteration of the while loop up to the link loop, on the loop state s.
\* branch names the path taken; on the "page" path links holds the link_table
\* of the result of extract_links, still to be iterated.
before_links(state) ==
  Bind(state, LAMBDA s :
  Bind(Head(s.q), LAMBDA url :
    LET s1  == [s EXCEPT !.q = popleft(s.q)]
        s2  == [s1 EXCEPT !.seen = @ \cup {url}]
        s3  == [s2 EXCEPT !.fetch_log = Append(@, url)]
        s4  == [s3 EXCEPT !.pages_crawled = @ + 1]
    IN IF already_seen(url, s.seen) THEN [s1 EXCEPT !.branch = "seen"]
       ELSE IF ~same_site(url, allowed_hosts) THEN [s2 EXCEPT !.branch = "offsite"]
       ELSE IF robots_denied(url) THEN [s2 EXCEPT !.branch = "robots"]
       ELSE
         Bind(session_get(url), LAMBDA r :
         Bind(fetch(r), LAMBDA f :
           IF r.raises THEN [s3 EXCEPT !.branch = "raise"]
           ELSE IF f.status # 200 \/ ~f.html.nonempty
             THEN [s4 EXCEPT !.sleeps = Append(@, Len(s4.fetch_log)),
                             !.branch = "empty"]
           ELSE
             [s4 EXCEPT !.product_urls =
                           IF is_product_html(f.html)
                           THEN Bind(get_canonical(f.html, url), LAMBDA canon :
                                  IF same_site(canon, allowed_hosts)
                                  THEN s4.product_urls \cup {canon}
                                  ELSE s4.product_urls)
                           ELSE @,
                        !.links = link_table(extract_links(f.html, url)),
                        !.branch = "page"]))))

\* The link loop of a "page" iteration, the extracted links being iterated in
\* the given order, and the sleep that ends the iteration.
link_loop(state, order) ==
  Bind(state, LAMBDA s :
  Bind(enqueue_links(s.q, order, s.seen, s.links), LAMBDA queue :
    [s EXCEPT !.q = queue,
              !.enq_log = @ \o SubSeq(queue, Len(s.q) + 1, Len(queue)),
              !.sleeps = Append(@, Len(s.fetch_log))]))

\* One whole iteration of the while loop.
loop_body(state, order) ==
  Bind(before_links(state), LAMBDA s :
    IF s.branch = "page" THEN link_loop(s, order) ELSE s)

\* The loop state held by the variables.
Cur ==
  [q |-> q, seen |-> seen, product_urls |-> product_urls,
   pages_crawled |-> pages_crawled, fetch_log |-> fetch_log,
   enq_log |-> enq_log, sleeps |-> sleeps, links |-> << >>, branch |-> "none"]

\* The variables take the loop state s.
Becomes(s) ==
  /\ q' = s.q
  /\ seen' = s.seen
  /\ product_urls' = s.product_urls
  /\ pages_crawled' = s.pages_crawled
  /\ fetch_log' = s.fetch_log
  /\ enq_log' = s.enq_log
  /\ sleeps' = s.sleeps

Init ==
  /\ args \in [start : StartArgs, max_pages : 0..MaxBudget, ua : {DEFAULT_UA}]
  /\ site \in Sites
  /\ resp \in {r \in [SitePaths(site) -> Outcomes] :
                 Cardinality({p \in SitePaths(site) : r[p] # "html200"}) <= MaxFaults}
  /\ robots_txt \in RobotsScenarios
  /\ start = normalize_url(args.start)
  /\ allowed_hosts = get_allowed_hosts(start)
  /\ rp = NewRobotFileParser
  /\ q = << >>
  /\ seen = {}
  /\ product_urls = {}
  /\ pages_crawled = 0
  /\ pc = "robots"
  /\ out = {}
  /\ fetch_log = << >>
  /\ enq_log = << >>
  /\ sleeps = << >>
  /\ call = NoCall
  /\ batch = NoBatch
  /\ job = NoJob

\* robots.txt is read (from the host list(allowed_hosts)[0], whichever that
\* is: the site serves one robots.txt), then the loop state is set up.
LoadRobots ==
  /\ pc = "robots"
  /\ rp' = robots_read(rp, RobotsFile(robots_txt))
  /\ q' = << start >>
  /\ enq_log' = << start >>
  /\ pc' = "loop"
  /\ UNCHANGED <<env, call, batch, job, seen, product_urls, pages_crawled, out,
                 fetch_log, sleeps>>

\* An iteration that drops the dequeued URL without a fetch.
Discard ==
  /\ pc = "loop"
  /\ loop_condition(q, pages_crawled)
  /\ \E s \in {before_links(Cur)} : s.branch \in {"seen", "offsite", "robots"} /\ Becomes(s)
  /\ UNCHANGED <<env, call, batch, job, rp, pc, out>>

\* An iteration whose fetch raises requests.RequestException.
FetchRaises ==
  /\ pc = "loop"
  /\ loop_condition(q, pages_crawled)
  /\ \E s \in {before_links(Cur)} : s.branch = "raise" /\ Becomes(s)
  /\ UNCHANGED <<env, call, batch, job, rp, pc, out>>

\* An iteration whose fetch returns a non-200 status or no HTML.
FetchEmpty ==
  /\ pc = "loop"
  /\ loop_condition(q, pages_crawled)
  /\ \E s \in {before_links(Cur)} : s.branch = "empty" /\ Becomes(s)
  /\ UNCHANGED <<env, call, batch, job, rp, pc, out>>

\* An iteration that classifies the page and enqueues its links.
ProcessPage ==
  /\ pc = "loop"
  /\ loop_condition(q, pages_crawled)
  /\ \E s \in {before_links(Cur)} :
       /\ s.branch = "page"
       /\ \E order \in Orders(DOMAIN s.links) :
            \E t \in {link_loop(s, order)} : Becomes(t)
  /\ UNCHANGED <<env, call, batch, job, rp, pc, out>>

\* The while condition fails.
ExitLoop ==
  /\ pc = "loop"
  /\ ~loop_condition(q, pages_crawled)
  /\ pc' = "write"
  /\ UNCHANGED <<env, call, batch, job, rp, q, seen, product_urls, pages_crawled, out,
                 fetch_log, enq_log, sleeps>>

\* The CSV is written: one row per product URL.
WriteCsv ==
  /\ pc = "write"
  /\ out' = product_urls
  /\ pc' = "done"
  /\ UNCHANGED <<env, call, batch, job, rp, q, seen, product_urls, pages_crawled,
                 fetch_log, enq_log, sleeps>>

Next ==
  \/ LoadRobots
  \/ ProcessPage
  \/ Discard
  \/ FetchRaises
  \/ FetchEmpty
  \/ ExitLoop
  \/ WriteCsv

Spec == Init /\ [][Next]_vars

\* The process is scheduled until it exits.
FairSpec == Spec /\ WF_vars(Next)

\* ------------------------------------------------------------------------
\* Crawls with an ample page budget
\* ------------------------------------------------------------------------
\* Largest --max-pages value of these crawls: the mixed site entered at its
\* apex host has 8 URLs in scope (4 paths on either host).
MaxAmpleBudget == 8

\* The crawl of Init with budgets up to MaxAmpleBudget, at most one page of
\* the site answered with anything but a 200 HTML page, and a robots.txt that
\* is empty or closes /admin/ to every agent.
AmpleInit ==
  /\ args \in [start : StartArgs, max_pages : 0..MaxAmpleBudget, ua : {DEFAULT_UA}]
  /\ site \in Sites
  /\ resp \in {r \in [SitePaths(site) -> Outcomes] :
                 Cardinality({p \in SitePaths(site) : r[p] # "html200"}) <= 1}
  /\ robots_txt \in {"empty", "star_admin"}
  /\ start = normalize_url(args.start)
  /\ allowed_hosts = get_allowed_hosts(start)
  /\ rp = NewRobotFileParser
  /\ q = << >>
  /\ seen = {}
  /\ product_urls = {}
  /\ pages_crawled = 0
  /\ pc = "robots"
  /\ out = {}
  /\ fetch_log = << >>
  /\ enq_log = << >>
  /\ sleeps = << >>
  /\ call = NoCall
  /\ batch = NoBatch
  /\ job = NoJob

AmpleSpec == AmpleInit /\ [][Next]_vars

\* ------------------------------------------------------------------------
\* The functions of the module called on their own
\* ------------------------------------------------------------------------
UpperHost == <<"WWW", ".", "Hardrace", ".", "co", ".", "uk">>
ShopHost  == <<"shop", ".", "hardrace", ".", "co", ".", "uk">>

\* A URL written out from its parts; << >> is a part that is absent.
Url(p) ==
  (IF p.scheme # << >> THEN p.scheme \o <<":">> ELSE << >>)
    \o (IF p.host # << >> THEN <<"/", "/">> \o p.host ELSE << >>)
    \o p.path
    \o (IF p.query # << >> THEN <<"?">> \o p.query ELSE << >>)
    \o (IF p.fragment # << >> THEN <<"#">> \o p.fragment ELSE << >>)

Parts(scheme, host, path, query, fragment) ==
  [scheme |-> scheme, host |-> host, path |-> path, query |-> query,
   fragment |-> fragment]

\* The URLs the functions are called on, by their parts.
InputSchemes   == {<< >>, <<"https">>, <<"HTTPS">>, <<"http">>}
InputHosts     == {<< >>, WwwHost, ApexHost, UpperHost, ShopHost}
InputPaths     == {<< >>, <<"/">>, <<"/", "a">>, <<"/", "a", "/">>,
                   <<"/", "a", "/", "/">>, <<"/", "A", "/", "b">>}
InputQueries   == {<< >>, <<"x=1">>}
InputFragments == {<< >>, <<"top">>}

InputUrls ==
  [scheme : InputSchemes, host : InputHosts, path : InputPaths,
   query : InputQueries, fragment : InputFragments]

\* The URLs same_site is asked about: every host of the model, the allowed
\* ones inside longer hosts included.
CandidateUrls ==
  {Parts(<<"https">>, h, <<"/", "a">>, << >>, << >>) :
     h \in InputHosts \cup {EvilHost, CdnHost}}

\* No crawl is running: the state of main before its first statement, for
\* the defaults of the command line.
CrawlIdle ==
  /\ args = [start |-> Https(WwwHost, <<"/">>), max_pages |-> 0, ua |-> DEFAULT_UA]
  /\ site = "three"
  /\ resp = [p \in SitePaths(site) |-> "html200"]
  /\ robots_txt = "unreachable"
  /\ start = normalize_url(args.start)
  /\ allowed_hosts = get_allowed_hosts(start)
  /\ rp = NewRobotFileParser
  /\ q = << >>
  /\ seen = {}
  /\ product_urls = {}
  /\ pages_crawled = 0
  /\ pc = "idle"
  /\ out = {}
  /\ fetch_log = << >>
  /\ enq_log = << >>
  /\ sleeps = << >>

crawl == <<env, rp, q, seen, product_urls, pages_crawled, pc, out, fetch_log,
           enq_log, sleeps>>

UrlInit ==
  /\ CrawlIdle
  /\ batch = NoBatch
  /\ job = NoJob
  /\ \E p \in InputUrls : call = [fn |-> "input", parts |-> p, url |-> Url(p)]

\* get_allowed_hosts(url)
CallGetAllowedHosts ==
  /\ call.fn = "input"
  /\ call' = [fn |-> "get_allowed_hosts", parts |-> call.parts, url |-> call.url,
              result |-> get_allowed_hosts(call.url)]
  /\ UNCHANGED <<crawl, batch, job>>

\* same_site(candidate, get_allowed_hosts(url))
CallSameSite ==
  /\ call.fn = "get_allowed_hosts"
  /\ \E c \in CandidateUrls :
       call' = [fn |-> "same_site", parts |-> call.parts, url |-> call.url,
                hosts |-> call.result, candidate |-> c,
                result |-> same_site(Url(c), call.result)]
  /\ UNCHANGED <<crawl, batch, job>>

\* normalize_url(url)
CallNormalize ==
  /\ call.fn = "input"
  /\ call' = [fn |-> "normalize_url", parts |-> call.parts, url |-> call.url,
              result |-> normalize_url(call.url)]
  /\ UNCHANGED <<crawl, batch, job>>

\* normalize_url(normalize_url(url))
CallNormalizeAgain ==
  /\ call.fn = "normalize_url"
  /\ call' = [fn |-> "normalize_url twice", parts |-> call.parts, url |-> call.url,
              once |-> call.result, result |-> normalize_url(call.result)]
  /\ UNCHANGED <<crawl, batch, job>>

\* Two URLs differ at most in the letter case of the scheme and of the host,
\* in one trailing slash on a non-root path, in the query and the fragment.
SameResource(a, b) ==
  /\ Lower(a.scheme) = Lower(b.scheme)
  /\ Lower(a.host) = Lower(b.host)
  /\ \/ a.path = b.path
     \/ a.path \notin {<< >>, <<"/">>} /\ b.path = a.path \o <<"/">>
     \/ b.path \notin {<< >>, <<"/">>} /\ a.path = b.path \o <<"/">>

\* normalize_url(url) and normalize_url(other) for two such URLs
CallNormalizeBoth ==
  /\ call.fn = "input"
  /\ \E o \in InputUrls :
       /\ SameResource(call.parts, o)
       /\ call' = [fn |-> "normalize_url both", parts |-> call.parts,
                   url |-> call.url, other |-> o,
                   result |-> normalize_url(call.url),
                   other_result |-> normalize_url(Url(o))]
  /\ UNCHANGED <<crawl, batch, job>>

\* The href values of <link rel="canonical">: none, root-relative, relative,
\* absolute on another host, absolute in upper case with a trailing slash, a
\* query and a fragment, scheme-relative, query only, fragment only.
CanonicalHrefs ==
  { Parts(<< >>, << >>, << >>, << >>, << >>),
    Parts(<< >>, << >>, <<"/", "a">>, << >>, << >>),
    Parts(<< >>, << >>, <<"b">>, << >>, << >>),
    Parts(<<"https">>, CdnHost, <<"/", "x">>, << >>, << >>),
    Parts(<<"HTTPS">>, UpperHost, <<"/", "A", "/", "b", "/">>, <<"x=1">>, <<"top">>),
    Parts(<< >>, CdnHost, <<"/", "x">>, << >>, << >>),
    Parts(<< >>, << >>, << >>, <<"ref=abc">>, << >>),
    Parts(<< >>, << >>, << >>, << >>, <<"top">>) }

\* get_canonical(soup, url) for a page whose canonical link has the href h
CallGetCanonical ==
  /\ call.fn = "input"
  /\ \E h \in CanonicalHrefs :
       call' = [fn |-> "get_canonical", parts |-> call.parts, url |-> call.url,
                href |-> h,
                result |-> get_canonical(Doc(FALSE, "none", FALSE, Url(h), << >>),
                                         call.url)]
  /\ UNCHANGED <<crawl, batch, job>>

UrlNext ==
  \/ CallGetCanonical
  \/ CallGetAllowedHosts
  \/ CallSameSite
  \/ CallNormalize
  \/ CallNormalizeAgain
  \/ CallNormalizeBoth

UrlSpec == UrlInit /\ [][UrlNext]_vars

\* ------------------------------------------------------------------------
\* is_product_html called on its own, on the text of a document
\* ------------------------------------------------------------------------
\* The text of a document is a sequence of tokens too: a tag opening such as
\* <meta, an attribute with its value, a quoted JSON string, ":", ">", white
\* space, a run of other text.

\* re.I on one token: the tokens of the model that carry upper case.
FoldCase(t) ==
  CASE t = "<META"                -> "<meta"
    [] t = "PROPERTY='OG:TYPE'"   -> "property='og:type'"
    [] t = "CONTENT='Product'"    -> "content='product'"
    [] t = "\"@TYPE\""            -> "\"@type\""
    [] t = "\"Product\""          -> "\"product\""
    [] t = "\"PRODUCT\""          -> "\"product\""
    [] OTHER                      -> t

\* \s
IsSpace(t) == t \in {" ", "\n"}

\* The token holds the character ">".
HasGt(t) ==
  t \in {">", "/>", "<p>", "</p>", "<script type=\"application/ld+json\">",
         "<div class=\"product-info-main\">"}

\* property=["\']og:type["\'] and content=["\']product["\'], case folded
PropertyOgType == {"property=\"og:type\"", "property='og:type'"}
ContentProduct == {"content=\"product\"", "content='product'"}

\* <meta[^>]+ first [^>]+ second: a <meta, then at least one character other
\* than ">", then the first attribute, then at least one character other than
\* ">", then the second attribute.
meta_search(text, first, second) ==
  \E i, j, k \in 1..Len(text) :
     /\ i + 1 < j
     /\ j + 1 < k
     /\ FoldCase(text[i]) = "<meta"
     /\ FoldCase(text[j]) \in first
     /\ FoldCase(text[k]) \in second
     /\ \A m \in (i+1)..(k-1) : ~HasGt(text[m])

\* OG_PRODUCT_RE.search(html) is not None
OG_PRODUCT_RE(text) == meta_search(text, PropertyOgType, ContentProduct)

\* PRODUCT_JSONLD_RE.search(html) is not None: "@type" \s* : \s* "product",
\* case folded.
PRODUCT_JSONLD_RE(text) ==
  \E i, j, k \in 1..Len(text) :
     /\ i < j
     /\ j < k
     /\ FoldCase(text[i]) = "\"@type\""
     /\ text[j] = ":"
     /\ FoldCase(text[k]) = "\"product\""
     /\ \A m \in ((i+1)..(j-1)) \cup ((j+1)..(k-1)) : IsSpace(text[m])

\* "product-info-main" in html
marker_in(text) ==
  \E i \in 1..Len(text) :
     text[i] \in {"product-info-main", "class=\"product-info-main\"",
                  "<div class=\"product-info-main\">"}

\* The document with the given text, by what the patterns find in it.
Html(text) ==
  [jsonld    |-> PRODUCT_JSONLD_RE(text),
   og        |-> IF OG_PRODUCT_RE(text) THEN "property_first"
                 ELSE IF meta_search(text, ContentProduct, PropertyOgType)
                   THEN "content_first"
                 ELSE "none",
   marker    |-> marker_in(text),
   canonical |-> << >>,
   anchors   |-> << >>,
   nonempty  |-> text # << >>]

\* The texts is_product_html is called on, by their parts.
FillerKinds == {"none", "paragraph"}
JsonLdKinds == {"none", "product", "upper_spaced", "thing"}
OgKinds     == {"none", "property_first", "content_first", "upper_single_quotes",
                "attribute_between", "article", "two_tags"}
MarkerKinds == {"none", "bare", "class"}

FillerText(k) ==
  IF k = "none" THEN << >> ELSE <<"<p>", "text", "</p>">>

\* JSON-LD in a script element, cut off after the type (invalid JSON).
JsonLdText(k) ==
  CASE k = "none"         -> << >>
    [] k = "product"      -> <<"<script type=\"application/ld+json\">", "{",
                               "\"@type\"", ":", "\"Product\"", ",", "\"name\"", ":">>
    [] k = "upper_spaced" -> <<"<script type=\"application/ld+json\">", "{",
                               "\"@TYPE\"", " ", ":", "\n", "\"PRODUCT\"", "}">>
    [] OTHER              -> <<"<script type=\"application/ld+json\">", "{",
                               "\"@type\"", ":", "\"Thing\"", "}">>

OgText(k) ==
  CASE k = "none"                -> << >>
    [] k = "property_first"      -> <<"<meta", " ", "property=\"og:type\"", " ",
                                      "content=\"product\"", ">">>
    [] k = "content_first"       -> <<"<meta", " ", "content=\"product\"", " ",
                                      "property=\"og:type\"", ">">>
    [] k = "upper_single_quotes" -> <<"<META", " ", "PROPERTY='OG:TYPE'", " ",
                                      "CONTENT='Product'", ">">>
    [] k = "attribute_between"   -> <<"<meta", " ", "property=\"og:type\"", " ",
                                      "name=\"x\"", " ", "content=\"product\"", " ",
                                      "/>">>
    [] k = "article"             -> <<"<meta", " ", "property=\"og:type\"", " ",
                                      "content=\"article\"", ">">>
    [] OTHER                     -> <<"<meta", " ", "property=\"og:type\"", ">",
                                      "<meta", " ", "content=\"product\"", ">">>

MarkerText(k) ==
  CASE k = "none" -> << >>
    [] k = "bare" -> <<"product-info-main">>
    [] OTHER      -> <<"<div class=\"product-info-main\">">>

InputHtml ==
  [filler : FillerKinds, jsonld : JsonLdKinds, og : OgKinds, marker : MarkerKinds]

HtmlText(p) ==
  FillerText(p.filler) \o JsonLdText(p.jsonld) \o OgText(p.og) \o MarkerText(p.marker)

HtmlInit ==
  /\ CrawlIdle
  /\ batch = NoBatch
  /\ job = NoJob
  /\ \E p \in InputHtml : call = [fn |-> "html", parts |-> p, text |-> HtmlText(p)]

\* is_product_html(html)
CallIsProductHtml ==
  /\ call.fn = "html"
  /\ call' = [fn |-> "is_product_html", parts |-> call.parts, text |-> call.text,
              result |-> is_product_html(Html(call.text))]
  /\ UNCHANGED <<crawl, batch, job>>

HtmlNext == CallIsProductHtml

HtmlSpec == HtmlInit /\ [][HtmlNext]_vars

\* ------------------------------------------------------------------------
\* firecrawl_csv_scraper.py: FirecrawlCSVScraper
\* ------------------------------------------------------------------------
\* Largest number of URLs in the list given to scrape_urls_batch or read from
\* the CSV file of a job.
MaxUrls == 2

\* Largest max_retries explored (values 0..MaxRetries).
MaxRetries == 2

\* What the Firecrawl API does with one scrape request: a response with
\* success and data, a response without, an exception.
ApiOutcomes == {"data", "no_data", "raise"}

\* A call that returned v / a call that raised an exception.
Returned(v) == [raises |-> FALSE, value |-> v]
Raised == [raises |-> TRUE]

\* self.app.scrape_url(url, ...)
app_scrape_url(url, o) ==
  IF o = "raise" THEN Raised
  ELSE Returned([success |-> o = "data", data |-> o = "data"])

\* ScrapeResult(url=..., success=..., error=...)
ScrapeResult(url, success, error) ==
  [url |-> url, success |-> success, error |-> error]

\* FirecrawlCSVScraper.scrape_url: the try block and its except clause.
scrape_url(url, o) ==
  Bind(app_scrape_url(url, o), LAMBDA r :
    IF r.raises THEN Returned(ScrapeResult(url, FALSE, "str(e)"))
    ELSE IF r.value.success /\ r.value.data
      THEN Returned(ScrapeResult(url, TRUE, "None"))
    ELSE Returned(ScrapeResult(url, FALSE, "Unknown error occurred")))

\* FirecrawlCSVScraper.scrape_url_advanced: the try block and its except
\* clause.
scrape_url_advanced(url, o) ==
  Bind(app_scrape_url(url, o), LAMBDA r :
    IF r.raises THEN Returned(ScrapeResult(url, FALSE, "str(e)"))
    ELSE IF r.value.success /\ r.value.data
      THEN Returned(ScrapeResult(url, TRUE, "None"))
    ELSE Returned(ScrapeResult(url, FALSE, "Unknown error occurred")))

\* The end of the body of "for i, url in enumerate(urls, 1)": the rate
\* limiting delay unless this was the last URL, then the next URL.
next_url(b) ==
  [b EXCEPT !.delays = IF b.i < Len(b.urls) THEN @ + 1 ELSE @,
            !.i = @ + 1,
            !.attempt = 0]

\* One pass of "for attempt in range(max_retries + 1)" without the break.
retry_attempt_no_break(b, r) ==
  LET url == b.urls[b.i]
      b1  == [b EXCEPT !.calls = Append(@, b.i)]
  IN IF ~r.raises
     THEN LET b2 == [b1 EXCEPT !.results = Append(@, r.value)]
          IN IF b.attempt < b.max_retries
             THEN [b2 EXCEPT !.attempt = @ + 1]
             ELSE next_url(b2)
     ELSE IF b.attempt < b.max_retries
       THEN [b1 EXCEPT !.waits = Append(@, (b.attempt + 1) * 2),
                       !.attempt = @ + 1]
     ELSE next_url([b1 EXCEPT !.results =
                      Append(@, ScrapeResult(url, FALSE, "Failed after retries"))])

\* One pass of "for attempt in range(max_retries + 1)", r being what the call
\* of scrape_url (scrape_url_advanced) did: the result is appended and the
\* loop left; on an exception the loop waits and goes on, or after the last
\* pass appends a failed result.
retry_attempt(b, r) ==
  LET url == b.urls[b.i]
      b1  == [b EXCEPT !.calls = Append(@, b.i)]
  IN IF ~r.raises
     THEN next_url([b1 EXCEPT !.results = Append(@, r.value)])
     ELSE IF b.attempt < b.max_retries
       THEN [b1 EXCEPT !.waits = Append(@, (b.attempt + 1) * 2),
                       !.attempt = @ + 1]
     ELSE next_url([b1 EXCEPT !.results =
                      Append(@, ScrapeResult(url, FALSE, "Failed after retries"))])

\* The URLs of a CSV file.
CsvUrls == {Https(ApexHost, <<"/", "a">>), Https(ApexHost, <<"/", "b">>)}

\* The lists of at most MaxUrls URLs.
UrlLists == UNION {[1..n -> CsvUrls] : n \in 0..MaxUrls}

\* scrape_urls_batch(urls, formats, max_retries) is entered.
BatchInit ==
  /\ CrawlIdle
  /\ call = NoCall
  /\ job = NoJob
  /\ \E urls \in UrlLists, max_retries \in 0..MaxRetries :
       batch = [pc |-> "for", urls |-> urls, max_retries |-> max_retries,
                i |-> 1, attempt |-> 0, results |-> << >>, calls |-> << >>,
                waits |-> << >>, delays |-> 0]

\* One pass of the retry loop for the URL at hand.
BatchAttempt ==
  /\ batch.pc = "for"
  /\ batch.i <= Len(batch.urls)
  /\ \E o \in ApiOutcomes :
       batch' = retry_attempt(batch, scrape_url(batch.urls[batch.i], o))
  /\ UNCHANGED <<crawl, call, job>>

\* The list is exhausted: self.results = results; return results
BatchReturn ==
  /\ batch.pc = "for"
  /\ batch.i > Len(batch.urls)
  /\ batch' = [batch EXCEPT !.pc = "returned"]
  /\ UNCHANGED <<crawl, call, job>>

BatchNext ==
  \/ BatchAttempt
  \/ BatchReturn

BatchSpec == BatchInit /\ [][BatchNext]_vars

\* ------------------------------------------------------------------------
\* app.py: one job, its worker thread and the requests about it
\* ------------------------------------------------------------------------
\* Largest number of POST /cancel/<job_id> requests made about the job.
MaxCancels == 2

\* The statuses in which cancel_job answers that the job cannot be cancelled.
NotCancellable == {"completed", "error", "cancelled"}

\* One pass of "for attempt in range(max_retries + 1)" of run_scraping_job, r
\* being what the call of scrape_url_advanced did; when the retry loop is
\* left, the rate limiting delay and the next URL, or the end of the list.
job_attempt(j, r) ==
  LET url  == j.urls[j.i]
      j1   == [j EXCEPT !.calls = Append(@, j.i)]
      next(jj) ==
        [jj EXCEPT !.delays = IF j.i < Len(j.urls) THEN @ + 1 ELSE @,
                   !.i = @ + 1,
                   !.attempt = 0,
                   !.wpc = IF j.i < Len(j.urls) THEN "check" ELSE "final_check"]
  IN IF ~r.raises
     THEN next([j1 EXCEPT !.results = Append(@, r.value)])
     ELSE IF j.attempt < j.max_retries
       THEN [j1 EXCEPT !.waits = Append(@, (j.attempt + 1) * 2),
                       !.attempt = @ + 1]
     ELSE next([j1 EXCEPT !.results =
                  Append(@, ScrapeResult(url, FALSE, "Failed after retries"))])

\* upload_file has stored the CSV file, created the entry of the job in
\* job_status and started the worker thread, which has not run yet.
JobInit ==
  /\ CrawlIdle
  /\ call = NoCall
  /\ batch = NoBatch
  /\ \E urls \in UrlLists, max_retries \in 0..MaxRetries :
       job = [status |-> "queued", results_file |-> FALSE, total_urls |-> 0,
              processed |-> 0,
              wpc |-> "start", urls |-> urls, max_retries |-> max_retries,
              i |-> 1, attempt |-> 0, results |-> << >>, calls |-> << >>,
              waits |-> << >>, delays |-> 0,
              file |-> FALSE,
              cpc |-> "idle", cancels |-> 0, cancel_ok |-> FALSE,
              served |-> {}]

\* run_scraping_job, line 53: job_status[job_id]['status'] = 'running'
WorkerStart ==
  /\ job.status # "none"
  /\ job.wpc = "start"
  /\ job' = [job EXCEPT !.status = "running", !.wpc = "read"]
  /\ UNCHANGED <<crawl, call, batch>>

\* run_scraping_job, lines 57-70: the scraper is set up and the URLs are
\* read from the CSV file; reading may raise, and an empty list ends the job
\* with status 'error'.
WorkerRead ==
  /\ job.status # "none"
  /\ job.wpc = "read"
  /\ \E raises \in BOOLEAN :
       job' = IF raises THEN [job EXCEPT !.wpc = "except"]
              ELSE IF job.urls = << >>
                THEN [job EXCEPT !.total_urls = 0, !.status = "error",
                                 !.wpc = "returned"]
              ELSE [job EXCEPT !.total_urls = Len(job.urls), !.wpc = "check"]
  /\ UNCHANGED <<crawl, call, batch>>

\* run_scraping_job, lines 76-94: the cancellation test at the head of the
\* loop body, then the progress entry.
WorkerCheck ==
  /\ job.status # "none"
  /\ job.wpc = "check"
  /\ job' = IF job.status = "cancelled"
            THEN [job EXCEPT !.wpc = "returned"]
            ELSE [job EXCEPT !.processed = job.i, !.wpc = "scrape"]
  /\ UNCHANGED <<crawl, call, batch>>

\* run_scraping_job, lines 96-159: one pass of the retry loop.
WorkerAttempt ==
  /\ job.status # "none"
  /\ job.wpc = "scrape"
  /\ \E o \in ApiOutcomes :
       job' = job_attempt(job, scrape_url_advanced(job.urls[job.i], o))
  /\ UNCHANGED <<crawl, call, batch>>

\* run_scraping_job, lines 161-163: the cancellation test after the loop.
WorkerFinalCheck ==
  /\ job.status # "none"
  /\ job.wpc = "final_check"
  /\ job' = IF job.status = "cancelled"
            THEN [job EXCEPT !.wpc = "returned"]
            ELSE [job EXCEPT !.wpc = "export"]
  /\ UNCHANGED <<crawl, call, batch>>

\* run_scraping_job, lines 165-168: the results file is written, or writing
\* it raises.
WorkerExport ==
  /\ job.status # "none"
  /\ job.wpc = "export"
  /\ \E raises \in BOOLEAN :
       job' = IF raises THEN [job EXCEPT !.wpc = "except"]
              ELSE [job EXCEPT !.file = TRUE, !.wpc = "complete"]
  /\ UNCHANGED <<crawl, call, batch>>

\* run_scraping_job, line 175: job_status[job_id]['status'] = 'completed'
WorkerComplete ==
  /\ job.status # "none"
  /\ job.wpc = "complete"
  /\ job' = [job EXCEPT !.status = "completed", !.wpc = "publish"]
  /\ UNCHANGED <<crawl, call, batch>>

\* run_scraping_job, lines 176-181: job_status[job_id]['results_file'] = ...
WorkerPublish ==
  /\ job.status # "none"
  /\ job.wpc = "publish"
  /\ job' = [job EXCEPT !.results_file = TRUE, !.wpc = "returned"]
  /\ UNCHANGED <<crawl, call, batch>>

\* run_scraping_job, lines 183-185: job_status[job_id]['status'] = 'error'
WorkerExcept ==
  /\ job.status # "none"
  /\ job.wpc = "except"
  /\ job' = [job EXCEPT !.status = "error", !.wpc = "returned"]
  /\ UNCHANGED <<crawl, call, batch>>

\* cancel_job, lines 308-313: a job that is completed, failed or cancelled
\* is answered with 400.
CancelCheck ==
  /\ job.status # "none"
  /\ job.cpc = "idle"
  /\ job.cancels < MaxCancels
  /\ job' = IF job.status \in NotCancellable
            THEN [job EXCEPT !.cancels = @ + 1]
            ELSE [job EXCEPT !.cancels = @ + 1, !.cpc = "mark"]
  /\ UNCHANGED <<crawl, call, batch>>

\* cancel_job, lines 316-317: job_status[job_id]['status'] = 'cancelled'
CancelMark ==
  /\ job.status # "none"
  /\ job.cpc = "mark"
  /\ job' = [job EXCEPT !.status = "cancelled", !.cpc = "answer"]
  /\ UNCHANGED <<crawl, call, batch>>

\* cancel_job, line 321: the answer {'success': True}
CancelAnswer ==
  /\ job.status # "none"
  /\ job.cpc = "answer"
  /\ job' = [job EXCEPT !.cancel_ok = TRUE, !.cpc = "idle"]
  /\ UNCHANGED <<crawl, call, batch>>

\* download_results: the file is sent when the status is 'completed' or
\* 'cancelled' and the job has a results_file entry.
Download ==
  /\ job.status # "none"
  /\ job' = IF job.status \notin {"completed", "cancelled"} \/ ~job.results_file
            THEN job
            ELSE [job EXCEPT !.served = @ \cup {job.status}]
  /\ UNCHANGED <<crawl, call, batch>>

JobNext ==
  \/ WorkerStart
  \/ WorkerRead
  \/ WorkerCheck
  \/ WorkerAttempt
  \/ WorkerFinalCheck
  \/ WorkerExport
  \/ WorkerComplete
  \/ WorkerPublish
  \/ WorkerExcept
  \/ CancelCheck
  \/ CancelMark
  \/ CancelAnswer
  \/ Download

JobSpec == JobInit /\ [][JobNext]_vars

\* ------------------------------------------------------------------------
\* Vocabulary of the properties
\* ------------------------------------------------------------------------
Range(f) == {f[i] : i \in 1..Len(f)}

Count(f, x) == Cardinality({i \in 1..Len(f) : f[i] = x})

\* The host of a URL is a member of the allowed-hosts set.
HostAllowed(u) == Lower(urlsplit(u).netloc) \in allowed_hosts

\* The fetch of u returned a 200 HTML page, which the loop went on to process.
Processed(u) ==
  /\ ~session_get(u).raises
  /\ fetch(session_get(u)).status = 200
  /\ fetch(session_get(u)).html.nonempty

\* Every request of the site is answered with a 200 HTML page.
AllOk == \A p \in SitePaths(site) : resp[p] = "html200"

\* The group of the served robots.txt that applies to the crawler's agent:
\* the first group naming the agent, else the first wildcard group.
ApplicableGroup ==
  LET g     == RobotsFile(robots_txt).groups
      named == {i \in 1..Len(g) : "*" \notin g[i].useragents
                                   /\ entry_applies_to(g[i], args.ua)}
      star  == {i \in 1..Len(g) : "*" \in g[i].useragents}
  IN IF named # {} THEN << g[CHOOSE i \in named : \A j \in named : i <= j] >>
     ELSE IF star # {} THEN << g[CHOOSE i \in star : \A j \in star : i <= j] >>
     ELSE << >>

\* The robots.txt loaded at crawl start disallows, for the crawler's agent,
\* a path prefix that the path of u starts with.
RobotsDisallows(u) ==
  /\ RobotsFile(robots_txt).loaded
  /\ ApplicableGroup # << >>
  /\ \E i \in 1..Len(ApplicableGroup[1].rulelines) :
       LET line == ApplicableGroup[1].rulelines[i]
       IN ~line.allowance /\ line.path # << >>
          /\ StartsWith(urlsplit(u).path, line.path)

\* The extracted links of the page behind url in document order.
RECURSIVE FirstOccurrences(_)
FirstOccurrences(f) ==
  IF f = << >> THEN << >>
  ELSE LET init == FirstOccurrences(SubSeq(f, 1, Len(f) - 1))
       IN IF f[Len(f)] \in Range(init) THEN init ELSE Append(init, f[Len(f)])

DocumentOrder(url) ==
  FirstOccurrences(resolved_anchors(fetch(session_get(url)).html.anchors, url))

\* The loop run to its end with every link set iterated in document order.
RECURSIVE ReferenceRun(_)
ReferenceRun(s) ==
  IF ~(s.q # << >> /\ s.pages_crawled < args.max_pages) THEN s
  ELSE ReferenceRun(loop_body(s, DocumentOrder(Head(s.q))))

ReferenceResult ==
  ReferenceRun([q |-> << start >>, seen |-> {}, product_urls |-> {},
                pages_crawled |-> 0, fetch_log |-> << >>,
                enq_log |-> << start >>, sleeps |-> << >>, links |-> << >>,
                branch |-> "none"])

\* ------------------------------------------------------------------------
\* Properties
\* ------------------------------------------------------------------------
\* C1: no URL is passed to fetch more than once in a crawl run.
C1_FetchedAtMostOnce ==
  \A i, j \in 1..Len(fetch_log) : fetch_log[i] = fetch_log[j] => i = j

\* C1 witness: a fetched URL was appended twice and both copies have been
\* dequeued.
C1_Witness ==
  \E u \in Range(fetch_log) : Count(enq_log, u) >= 2 /\ u \notin Range(q)

\* C2 (as claimed): the number of fetch attempts, transport failures
\* included, never exceeds the page budget.
C2_FetchAttemptsWithinBudget == Len(fetch_log) <= args.max_pages

C4_OffDomainNeverUsed ==
  \A u \in Range(q) \cup Range(enq_log) \cup Range(fetch_log)
             \cup product_urls \cup out : HostAllowed(u)

\* C4 witness: a processed product page carries an off-domain link and an
\* off-domain canonical URL.
C4_Witness ==
  \E u \in Range(fetch_log) :
     /\ Processed(u)
     /\ \E l \in links_of(u) : ~HostAllowed(normalize_url(l))
     /\ is_product_html(fetch(session_get(u)).html)
     /\ ~HostAllowed(get_canonical(fetch(session_get(u)).html, u))

\* C5 (as claimed): no URL under a path prefix that the loaded robots.txt
\* disallows for the crawler's agent is ever fetched, whether the rule is in
\* the wildcard group or in a group naming the agent.
C5_RobotsDisallowRespected ==
  \A u \in Range(fetch_log) : ~RobotsDisallows(u)

\* C6: the crawl loop always exits and the output is written.
C6_Terminates == <>(pc = "done")

\* C6 witness: a finished crawl that met a transport failure and a non-200
\* or non-HTML response.
C6_Witness ==
  /\ pc = "done"
  /\ \E u \in Range(fetch_log) : session_get(u).raises
  /\ \E u \in Range(fetch_log) : ~session_get(u).raises /\ ~Processed(u)

\* C7: the loop is left only when the frontier is empty or the budget is
\* exhausted, and no iteration starts once either holds.
C7_ExitExactlyWhenDrainedOrExhausted ==
  [][/\ (pc = "loop" /\ pc' = "write")
          => (q = << >> \/ pages_crawled >= args.max_pages)
     /\ (pc = "loop" /\ pc' = "loop")
          => (q # << >> /\ pages_crawled < args.max_pages)]_vars

\* C7 witness: the crawl ended on an exhausted budget with a non-empty
\* frontier.
C7_Witness ==
  pc = "done" /\ q # << >> /\ args.max_pages > 0 /\ pages_crawled >= args.max_pages

\* The case of C8: the three-page site, every page served as 200 HTML,
\* nothing denied by robots, a budget of at least 3, the crawl finished.
C8_Case ==
  /\ site = "three"
  /\ AllOk
  /\ robots_txt \in {"unreachable", "empty"}
  /\ args.max_pages >= 3
  /\ pc = "done"

\* C8: on the three-page site the crawl ends with 2 product URLs and 3 pages
\* crawled.
C8_ThreePageSite ==
  C8_Case => Cardinality(product_urls) = 2 /\ pages_crawled = 3

\* C8 witness: such a crawl has finished.
C8_Witness == C8_Case /\ Len(fetch_log) = 3

\* C9 (as claimed): every run ends with the product set and the page count
\* of the run that iterates every link set in document order.
C9_Deterministic ==
  pc = "done" =>
     /\ product_urls = ReferenceResult.product_urls
     /\ pages_crawled = ReferenceResult.pages_crawled

\* C10 (as claimed): for the start URL https://www.hardrace.co.uk/ the
\* allowed hosts contain www.hardrace.co.uk and hardrace.co.uk and not
\* hardrace.co.uk.evil.com.
C10_WwwStartScope ==
  args.start = Https(WwwHost, <<"/">>) =>
     /\ WwwHost \in allowed_hosts
     /\ ApexHost \in allowed_hosts
     /\ EvilHost \notin allowed_hosts

\* The registrable domain of the hosts the functions are called on: the
\* label before the public suffix co.uk, and the suffix.
RegistrableDomain(host) ==
  IF host \in {WwwHost, ApexHost, ShopHost} THEN ApexHost ELSE << >>

\* C11: for every start URL (one that names a host) get_allowed_hosts
\* returns 1 to 3 lowercase hostnames, the start URL's own host among them;
\* when that host does not start with "www." the registrable domain and its
\* "www." variant are among them too; and same_site accepts a candidate
\* exactly when its host is equal to one of them.
C11_AllowedHosts ==
  call.fn \in {"get_allowed_hosts", "same_site"} /\ call.parts.host # << >> =>
    LET host  == Lower(call.parts.host)
        hosts == IF call.fn = "same_site" THEN call.hosts ELSE call.result
    IN /\ Cardinality(hosts) \in 1..3
       /\ \A h \in hosts : h = Lower(h)
       /\ host \in hosts
       /\ host[1] # "www" =>
            /\ RegistrableDomain(host) \in hosts
            /\ <<"www", ".">> \o RegistrableDomain(host) \in hosts
       /\ call.fn = "same_site" =>
            (call.result <=> \E h \in hosts : h = Lower(call.candidate.host))

\* C11 witness: for a start URL on a subdomain same_site has turned down a
\* host that ends with an allowed host, and a host that starts with one.
C11_Witness ==
  /\ call.fn = "same_site"
  /\ call.parts.host = ShopHost
  /\ Cardinality(call.hosts) = 3
  /\ call.candidate.host = EvilHost
  /\ ~call.result

\* C12 (as claimed): normalize_url(normalize_url(x)) = normalize_url(x) for
\* every URL x, paths with more than one trailing slash and URLs without a
\* scheme included.
C12_NormalizeIdempotent ==
  call.fn = "normalize_url twice" => call.result = call.once

\* The result of normalize_url carries no query and no fragment, has a
\* non-empty path, and its path is the path of the input in the same letter
\* case, less a trailing slash at most ("/" for an empty path).
NormalForm(result, p) ==
  /\ "?" \notin Range(result)
  /\ "#" \notin Range(result)
  /\ urlsplit(result).path # << >>
  /\ \/ urlsplit(result).path = p.path
     \/ urlsplit(result).path \o <<"/">> = p.path
     \/ urlsplit(result).path = <<"/">> /\ p.path = << >>

\* C13 (as claimed): normalize_url gives the same string for two URLs that
\* differ only in the letter case of scheme and host, in one trailing slash
\* on a non-root path, in the query or in the fragment; the result has no
\* query, no fragment, a non-empty path, and the path's letter case.
C13_NormalizeEquivalences ==
  call.fn = "normalize_url both" =>
    /\ call.result = call.other_result
    /\ NormalForm(call.result, call.parts)

\* The same for URLs whose paths do not end in two slashes.
C13_SingleSlashOnly ==
  (call.fn = "normalize_url both"
     /\ \A p \in {call.parts.path, call.other.path} :
           Len(p) < 2 \/ SubSeq(p, Len(p) - 1, Len(p)) # <<"/", "/">>) =>
    /\ call.result = call.other_result
    /\ NormalForm(call.result, call.parts)

\* The reference h resolved against the absolute URL base, part by part
\* (RFC 3986, 5.2.2; no dot segments occur).
Resolved(base, h) ==
  IF h.scheme # << >> THEN h
  ELSE IF h.host # << >> THEN [h EXCEPT !.scheme = base.scheme]
  ELSE IF h.path = << >>
    THEN [base EXCEPT !.query = IF h.query # << >> THEN h.query ELSE @,
                      !.fragment = h.fragment]
  ELSE IF h.path[1] = "/"
    THEN [base EXCEPT !.path = h.path, !.query = h.query, !.fragment = h.fragment]
  ELSE [base EXCEPT !.path = (IF \E i \in 1..Len(@) : @[i] = "/"
                              THEN SubSeq(@, 1, CHOOSE i \in 1..Len(@) :
                                     @[i] = "/" /\ \A j \in (i+1)..Len(@) : @[j] # "/")
                              ELSE <<"/">>) \o h.path,
                    !.query = h.query, !.fragment = h.fragment]

\* The normal form of an absolute URL, part by part: lower-case scheme and
\* host, "/" for an empty path, one trailing slash off a longer path, no
\* query, no fragment.
Normalized(p) ==
  Url([scheme   |-> Lower(p.scheme),
       host     |-> Lower(p.host),
       path     |-> IF p.path = << >> THEN <<"/">>
                    ELSE IF Len(p.path) > 1 /\ p.path[Len(p.path)] = "/"
                      THEN SubSeq(p.path, 1, Len(p.path) - 1)
                    ELSE p.path,
       query    |-> << >>,
       fragment |-> << >>])

DeclaredCanonical(u) ==
  LET page == SitePages(site)[urlsplit(u).path]
  IN IF page.canonical # << >> THEN normalize_url(urljoin(u, page.canonical))
     ELSE normalize_url(u)

\* The fetched URLs whose page was processed and classified as a product.
FetchedProducts ==
  {u \in Range(fetch_log) :
     Processed(u) /\ is_product_html(fetch(session_get(u)).html)}

\* C15: the product accumulator starts empty, and an iteration adds to it
\* the declared canonical URL of the page it fetched, when that page is a
\* product page and the canonical URL is on an allowed host, and nothing
\* else: never the fetched URL in place of another canonical URL, and one
\* entry for all the pages that declare the same canonical URL.
C15_KeyedByCanonical ==
  /\ [](pc = "robots" => product_urls = {})
  /\ [][product_urls' =
          product_urls \cup
            (IF /\ Len(fetch_log') > Len(fetch_log)
                /\ Processed(Head(q))
                /\ is_product_html(fetch(session_get(Head(q))).html)
                /\ HostAllowed(DeclaredCanonical(Head(q)))
             THEN {DeclaredCanonical(Head(q))}
             ELSE {})]_vars

\* C15 witness: a product page and the product page it names as canonical
\* were both fetched, and the accumulator holds the canonical URL alone.
C15_Witness ==
  \E u, v \in FetchedProducts :
     /\ u # v
     /\ DeclaredCanonical(u) = v
     /\ DeclaredCanonical(v) = v
     /\ v \in product_urls
     /\ u \notin product_urls

\* C16 (as claimed): every fetch attempt, whatever its outcome, adds one to
\* the crawled-pages count.
C16_EveryAttemptCounts == pages_crawled = Len(fetch_log)

\* The loaded robots policy has a default group and turns u down.
PolicyDenies(u) == rp.default_entry # << >> /\ ~can_fetch(rp, args.ua, u)

\* C17: an iteration that dequeues a URL which is in the visited set, on a
\* host outside the allowed hosts or denied by the robots policy makes no
\* fetch and leaves the crawled-pages count, the product accumulator and the
\* rest of the frontier as they were.
C17_DiscardFrame ==
  [][(/\ pc = "loop" /\ pc' = "loop"
      /\ \/ Head(q) \in seen
         \/ ~HostAllowed(Head(q))
         \/ PolicyDenies(Head(q)))
       => /\ fetch_log' = fetch_log
          /\ pages_crawled' = pages_crawled
          /\ product_urls' = product_urls
          /\ q' = Tail(q)
          /\ enq_log' = enq_log]_vars

\* C17 witness: one URL was dropped by the robots policy and another, of
\* which two copies were in the frontier, was dropped as visited.
C17_Witness ==
  /\ \E u \in seen : PolicyDenies(u) /\ u \notin Range(fetch_log)
  /\ \E u \in seen : /\ Count(enq_log, u) >= 2
                     /\ u \notin Range(q)
                     /\ Count(fetch_log, u) = 1

\* C18 (as claimed): between any two consecutive fetch attempts there is at
\* least one politeness sleep, whatever the outcome of the earlier attempt.
C18_SleepBetweenFetches ==
  \A i \in 1..(Len(fetch_log) - 1) : i \in Range(sleeps)

\* C19: robots.txt is read once, before any page is fetched, and the policy
\* stays as loaded for the rest of the run; when it could not be loaded the
\* crawl goes on and every dequeued URL on an allowed host is fetched.
C19_RobotsOnceAndNeverFatal ==
  /\ [](pc = "robots" => fetch_log = << >>)
  /\ [][/\ pc = "robots" => pc' = "loop"
        /\ pc # "robots" => (pc' # "robots" /\ rp' = rp)]_vars
  /\ [](~RobotsFile(robots_txt).loaded =>
          \A u \in seen : HostAllowed(u) => u \in Range(fetch_log))

\* C19 witness: robots.txt could not be loaded and the crawl has finished
\* after fetching pages, a page of the /admin/ area among them.
C19_Witness ==
  /\ ~RobotsFile(robots_txt).loaded
  /\ pc = "done"
  /\ Len(fetch_log) >= 3
  /\ \E u \in Range(fetch_log) : StartsWith(urlsplit(u).path, AdminPrefix)

\* C20: an iteration whose fetch raises a transport error enqueues nothing,
\* adds nothing to the product accumulator and leaves the loop at the next
\* frontier entry; the URL is never fetched a second time.
C20_TransportFailureNoRetry ==
  /\ [][(/\ pc = "loop"
         /\ Len(fetch_log') = Len(fetch_log) + 1
         /\ session_get(Head(q)).raises)
          => /\ q' = Tail(q)
             /\ enq_log' = enq_log
             /\ product_urls' = product_urls
             /\ pc' = "loop"]_vars
  /\ [](\A u \in Range(fetch_log) :
          session_get(u).raises => Count(fetch_log, u) = 1)

\* C20 witness: a fetch raised, a second copy of its URL was dequeued
\* later, another URL was fetched after it, and the crawl has finished.
C20_Witness ==
  /\ pc = "done"
  /\ \E i \in 1..(Len(fetch_log) - 1) :
       /\ session_get(fetch_log[i]).raises
       /\ Count(enq_log, fetch_log[i]) >= 2
       /\ fetch_log[i] \notin Range(q)

\* The Content-Type header names text/html or application/xhtml.
IsHtmlType(ctype) ==
  \E i \in 1..Len(ctype) : ctype[i] \in {"text/html", "application/xhtml"}

\* C21: an iteration whose fetch is answered with a status other than 200, or
\* with a Content-Type that is neither text/html nor application/xhtml, adds
\* nothing to the product accumulator and nothing to the frontier.
C21_NonPageFrame ==
  [][(/\ pc = "loop"
      /\ Len(fetch_log') = Len(fetch_log) + 1
      /\ ~session_get(Head(q)).raises
      /\ \/ session_get(Head(q)).status_code # 200
         \/ ~IsHtmlType(session_get(Head(q)).ctype))
       => /\ product_urls' = product_urls
          /\ q' = Tail(q)
          /\ enq_log' = enq_log]_vars

\* C21 witness: the crawl has finished after a 404 answer and after a 200
\* answer of another content type whose body is a product page with links,
\* and that page is not in the accumulator.
C21_Witness ==
  /\ pc = "done"
  /\ \E v \in Range(fetch_log) :
       ~session_get(v).raises /\ session_get(v).status_code = 404
  /\ \E u \in Range(fetch_log) :
       /\ ~session_get(u).raises
       /\ session_get(u).status_code = 200
       /\ ~IsHtmlType(session_get(u).ctype)
       /\ is_product_html(session_get(u).text)
       /\ session_get(u).text.anchors # << >>
       /\ DeclaredCanonical(u) \notin product_urls

\* A URL in the form normalize_url gives: a scheme, a lower-case host, a
\* non-empty path, no query and no fragment.
IsNormalForm(u) ==
  LET p == urlsplit(u)
  IN /\ p.scheme # << >>
     /\ p.netloc # << >>
     /\ p.netloc = Lower(p.netloc)
     /\ p.path # << >>
     /\ p.query = << >>
     /\ p.fragment = << >>
     /\ "?" \notin Range(u)
     /\ "#" \notin Range(u)

\* C22 (as claimed): the visited set only grows, and a URL enters it only as
\* the normalized URL that is being dequeued and for which a fetch is then
\* attempted.
C22_VisitedWereAttempted ==
  [][/\ seen \subseteq seen'
     /\ \A u \in seen' \ seen :
          /\ pc = "loop"
          /\ u = Head(q)
          /\ IsNormalForm(u)
          /\ fetch_log' = Append(fetch_log, u)]_vars

\* C22 (amended): the visited set only grows, and a URL enters it only as the
\* normalized URL that is being dequeued; a fetch is then attempted for it
\* unless its host is outside the allowed hosts or the robots policy denies
\* it, in which case it is marked visited without a fetch.
C22_VisitedWereDequeued ==
  [][/\ seen \subseteq seen'
     /\ \A u \in seen' \ seen :
          /\ pc = "loop"
          /\ u = Head(q)
          /\ IsNormalForm(u)
          /\ IF ~HostAllowed(u) \/ PolicyDenies(u)
             THEN fetch_log' = fetch_log
             ELSE fetch_log' = Append(fetch_log, u)]_vars

\* C22 witness: the visited set of a finished crawl holds a URL whose fetch
\* raised, a URL that was fetched and processed, and a URL that the robots
\* policy turned down and that was never fetched.
C22_Witness ==
  /\ pc = "done"
  /\ \E u \in seen : u \in Range(fetch_log) /\ session_get(u).raises
  /\ \E u \in seen : u \in Range(fetch_log) /\ Processed(u)
  /\ \E u \in seen : u \notin Range(fetch_log) /\ PolicyDenies(u)

\* The signals of a document, by the parts its text was written from.
JsonLdSignal(p) == p.jsonld \in {"product", "upper_spaced"}
OgSignal(p) ==
  p.og \in {"property_first", "content_first", "upper_single_quotes",
            "attribute_between"}
MarkerSignal(p) == p.marker # "none"

\* C23 (as claimed): is_product_html is false on the empty text and otherwise
\* true exactly when the text holds a JSON-LD "@type":"Product" declaration
\* in any letter case, an og:type=product meta tag, or product-info-main.
C23_ClassifiesBySignals ==
  call.fn = "is_product_html" =>
    (call.result <=>
       /\ call.text # << >>
       /\ JsonLdSignal(call.parts) \/ OgSignal(call.parts) \/ MarkerSignal(call.parts))

\* The same for the texts whose og:type meta tag, if any, does not have the
\* content attribute before the property attribute.
C23_PropertyFirstOnly ==
  (call.fn = "is_product_html" /\ call.parts.og # "content_first") =>
    (call.result <=>
       /\ call.text # << >>
       /\ JsonLdSignal(call.parts) \/ OgSignal(call.parts) \/ MarkerSignal(call.parts))

\* C26 (as claimed): a meta tag with property og:type and content product
\* classifies the page as a product whichever of the two attributes comes
\* first, and in any letter case.
C26_OgAnyAttributeOrder ==
  (call.fn = "is_product_html" /\ OgSignal(call.parts)) => call.result

\* The same for the tags with the property attribute first.
C26_OgPropertyFirst ==
  (call.fn = "is_product_html" /\ OgSignal(call.parts)
     /\ call.parts.og # "content_first") => call.result

\* C24 (as claimed): scrape_urls_batch records a failed result for a URL
\* only after max_retries + 1 scrape attempts were made for it.
C24_FailedOnlyAfterRetries ==
  batch.pc \in {"for", "returned"} =>
    \A k \in 1..Len(batch.results) :
       ~batch.results[k].success => Count(batch.calls, k) = batch.max_retries + 1

\* C30: scrape_urls_batch returns one ScrapeResult per input URL, in input
\* order, and makes at most max_retries + 1 scrape attempts for each URL,
\* whatever the list, max_retries and the outcome of every attempt.
C30_OneResultPerUrl ==
  batch.pc \in {"for", "returned"} =>
    /\ \A k \in 1..Len(batch.urls) : Count(batch.calls, k) <= batch.max_retries + 1
    /\ Len(batch.results) = batch.i - 1
    /\ \A k \in 1..Len(batch.results) : batch.results[k].url = batch.urls[k]
    /\ batch.pc = "returned" => Len(batch.results) = Len(batch.urls)

\* C30 witness: the call has returned for a list of two URLs with retries
\* allowed; one scrape succeeded, the other met an exception of the API.
C30_Witness ==
  /\ batch.pc = "returned"
  /\ Len(batch.urls) = 2
  /\ batch.max_retries >= 1
  /\ batch.results[1].success
  /\ batch.results[2].error = "str(e)"

\* C28 (as claimed): once cancel_job has answered success for a job, the
\* status of the job is 'cancelled' and stays so.
C28_CancelSticks ==
  (job.status # "none" /\ job.cancel_ok) => job.status = "cancelled"

\* C29 (as claimed): once cancel_job has answered success, the worker starts
\* no further scrape, writes no results file, the job has and gets no
\* results_file entry, and download_results sends no file.
C29_CancelledJobStops ==
  [][(job.status # "none" /\ job.cancel_ok) =>
       /\ job'.calls = job.calls
       /\ job'.file = job.file
       /\ ~job'.results_file
       /\ job'.served = job.served]_vars

\* The URLs on allowed hosts that the links of the pages behind the URLs of S
\* lead to, S included.
RECURSIVE LinkClosure(_)
LinkClosure(S) ==
  LET T == S \cup {n \in {normalize_url(l) : l \in UNION {links_of(u) : u \in S}} :
                     HostAllowed(n)}
  IN IF T = S THEN S ELSE LinkClosure(T)

\* The in-scope normalized URLs reachable from the start URL through links.
Reachable == LinkClosure({start})

\* The case of C27: the budget covers every reachable URL, each of them is
\* answered with a 200 HTML page, and robots.txt disallows none of them.
C27_Case ==
  /\ args.max_pages >= Cardinality(Reachable)
  /\ \A u \in Reachable : Processed(u) /\ ~RobotsDisallows(u)

RECURSIVE ReplayDepths(_, _, _)
ReplayDepths(k, depths, visited) ==
  IF k > Len(enq_log) - Len(q) \/ k > Len(depths) THEN depths
  ELSE LET u == enq_log[k]
       IN IF u \in visited THEN ReplayDepths(k + 1, depths, visited)
          ELSE IF ~HostAllowed(u) \/ PolicyDenies(u) \/ ~Processed(u)
            THEN ReplayDepths(k + 1, depths, visited \cup {u})
          ELSE LET n == Cardinality({l \in links_of(u) :
                                       /\ HostAllowed(normalize_url(l))
                                       /\ normalize_url(l) \notin visited \cup {u}})
               IN ReplayDepths(k + 1, depths \o [i \in 1..n |-> depths[k] + 1],
                               visited \cup {u})

LinkDepths == ReplayDepths(1, << 0 >>, {})

\* The index of the first entry of enq_log that holds u.
FirstEntry(u) ==
  CHOOSE i \in 1..Len(enq_log) :
     enq_log[i] = u /\ \A j \in 1..(i - 1) : enq_log[j] # u

\* C25: the frontier is first-in first-out: every iteration takes the entry
\* at its head and appends at its tail, so entries are dequeued in the order
\* in which they were enqueued; the start URL is dequeued first; and in a
\* finished crawl a URL first discovered at link depth d was dequeued before
\* every dequeued URL first discovered at depth d + 1.
C25_BreadthFirst ==
  /\ [][(pc = "loop" /\ pc' = "loop") =>
          /\ Len(enq_log') >= Len(enq_log)
          /\ SubSeq(enq_log', 1, Len(enq_log)) = enq_log
          /\ q' = Tail(q) \o SubSeq(enq_log', Len(enq_log) + 1, Len(enq_log'))
          /\ seen' = seen \cup {Head(q)}
          /\ fetch_log' \in {fetch_log, Append(fetch_log, Head(q))}]_vars
  /\ []((pc = "loop" /\ seen = {}) => q = << start >>)
  /\ [](pc = "done" =>
          LET d   == LinkDepths
              deq == Len(enq_log) - Len(q)
          IN /\ Len(d) = Len(enq_log)
             /\ \A i, j \in 1..Len(enq_log) :
                  (/\ i = FirstEntry(enq_log[i])
                   /\ j = FirstEntry(enq_log[j])
                   /\ j <= deq
                   /\ d[j] = d[i] + 1) => i < j)

\* C25 witness: a finished crawl has fetched a URL first discovered at depth
\* 2 after URLs of depth 1, and a URL of depth 3 is waiting in the frontier.
C25_Witness ==
  /\ pc = "done"
  /\ Len(LinkDepths) = Len(enq_log)
  /\ \E j \in 1..(Len(enq_log) - Len(q)) :
       /\ j = FirstEntry(enq_log[j])
       /\ LinkDepths[j] = 2
       /\ enq_log[j] \in Range(fetch_log)
  /\ \E j \in 1..Len(enq_log) : LinkDepths[j] = 3

====
